---- MODULE Spec2Model ----
(***************************************************************************)
(* A model of the artichoke host state (artichoke-backend/src/state.rs),   *)
(* the exception bootstrap and raise bridge                                *)
(* (artichoke-backend/src/extn/core/exception/mod.rs) and the eval         *)
(* boundary (artichoke-core/src/eval.rs).                                  *)
(*                                                                         *)
(* Byte strings and text are sequences: a name is a sequence of bytes, a   *)
(* String is a sequence of one-character strings.  An Option<T> is <<>>    *)
(* for None and <<v>> for Some(v).                                         *)
(***************************************************************************)
EXTENDS Naturals, Sequences, FiniteSets, TLC

\* ------------------------------------------------------------------ bounds
\* The longest symbol name passed to sym_intern.
MaxNameLen == 1
\* The guest VM's symbol table holds at most this many symbols.
MaxSyms == 3
\* The number of host-state calls (close, sym_intern) one run makes.
MaxHostCalls == 3
\* The number of output calls (capture, drain, print, puts) one run makes.
MaxOutCalls == 5
\* The number of exception::init and eval calls one run makes.
MaxExcCalls == 3
\* The last line of the guest code given to eval.
MaxLine == 2
\* The number of registry and exception-value calls one run makes.
MaxRegCalls == 4

\* ------------------------------------------------------------- basic values
NULL == "NULL"
None == <<>>
Some(v) == <<v>>

\* std::option::Option::unwrap_or_default for Option<String>.
unwrap_or_default(opt) == IF opt = None THEN <<>> ELSE opt[1]

\* The bytes a name is made of.
Bytes == {97, 98}

RECURSIVE SeqsUpTo(_, _)
SeqsUpTo(S, n) ==
    IF n = 0 THEN {<<>>}
    ELSE LET shorter == SeqsUpTo(S, n - 1)
         IN  shorter \cup {Append(q, x) : q \in shorter, x \in S}

Names == SeqsUpTo(Bytes, MaxNameLen)

\* The two forms of a Cow<'static, [u8]>.
CowForms == {"Borrowed", "Owned"}

VARIABLES
    \* State (state.rs:15-27) and the guest VM it points to
    created,        \* the handles State::new was given
    mrb,            \* State::mrb, NULL or the VM's address
    ctx,            \* State::ctx, NULL or the compile context's address
    ud,             \* (*mrb).ud, the VM's user-data slot
    vm_open,        \* the guest VM is allocated and not closed by mrb_close
    sys_calls,      \* the teardown calls made into the VM, in order
    symbol_cache,   \* State::symbol_cache, a function name -> mrb_sym
    vm_symtab,      \* the VM's symbol table: vm_symtab[i] is the name of symbol i
    status,         \* "running", or "crashed" once undefined behaviour faulted
    interned,       \* every (name, form, handle) sym_intern has returned
    host_calls,     \* the number of host-state calls made
    vm_intern_calls,\* how often mrb_intern_static was called, for each name
    \* the output sink: State::captured_output and the process's stdout
    captured_output,\* State::captured_output, an Option<String>
    stdout_buf,     \* what io::stdout() holds buffered, not yet written
    console,        \* what has been written to the console
    out_log,        \* the print/puts calls since capture_output() or a drain
    out_calls,      \* the number of output calls made
    \* the class registry, the guest VM's classes and the raise bridge
    classes,        \* State::classes, a function host type -> class spec
    vm_classes,     \* the classes defined in the guest VM: name -> superclass
    vm_evals,       \* the guest sources evaluated so far, in order
    context_stack,  \* State::context_stack, the last element is the current one
    rc,             \* the strong count of the Rc that owns the State
    borrows,        \* the outstanding borrows of the RefCell around the State
    pc,             \* where control is: the host, guest code, a step of raise
    frame,          \* the locals of the native entry point and of raise
    raise_log,      \* the steps raise has taken, with what was live at each
    eval_result,    \* what the last eval returned
    vm_exc,         \* the exception raised in the guest VM and not yet caught
    exc_calls,      \* the number of init and eval calls made
    eval_stack,     \* the evals in progress, outermost first: what each found
    eval_returned,  \* the last eval to return: what it found and what it left
    \* State::modules and the exception values the host holds
    modules,        \* State::modules, a function host type -> module spec
    reg_log,        \* the def_class and def_module calls made, in order
    exc_value,      \* an exception value the host has constructed and kept
    registry_at_new,\* State::classes as it was when exc_value was constructed
    reg_calls,      \* the number of registry and exception-value calls made
    last_call       \* the last call made, its arguments and what it saw

hostVars == <<created, mrb, ctx, ud, vm_open, sys_calls, symbol_cache, vm_symtab, status,
              interned, host_calls, vm_intern_calls>>

outVars == <<captured_output, stdout_buf, console, out_log, out_calls>>

excVars == <<classes, vm_classes, vm_evals, context_stack, rc, borrows, pc, frame,
             raise_log, eval_result, vm_exc, exc_calls, eval_stack, eval_returned>>

regVars == <<modules, reg_log, exc_value, registry_at_new, reg_calls>>

vars == <<hostVars, outVars, excVars, regVars, last_call>>

\* The native frame when no native function is running.
NoFrame == [interp |-> FALSE, exception |-> None, mrb |-> NULL, eclass |-> None,
            formatargs |-> None]

\* --------------------------------------------------------------- State::new
\* State::new stores the two handles it is given and starts with empty
\* registries and an empty symbol cache.  A compile context belongs to a VM,
\* so there is none without one.  The user-data slot of the VM is null until
\* the interpreter stores the back-reference to the state in it; the Rc that
\* owns the State is then held by the host and by that slot.
NewArgs ==
    { <<NULL, NULL, NULL>>, <<"mrb", NULL, NULL>>, <<"mrb", NULL, "ud">>,
      <<"mrb", "ctx", NULL>>, <<"mrb", "ctx", "ud">> }

\* The symbols the VM has interned by itself before the host interns any.
VmBootSymtabs == {<<>>, <<<<97>>>>, <<<<98>>, <<>>>>}

new(a, symtab) ==
    /\ created = [mrb |-> a[1], ctx |-> a[2]]
    /\ mrb = a[1]
    /\ ctx = a[2]
    /\ ud = a[3]
    /\ vm_open = (a[1] # NULL)
    /\ sys_calls = <<>>
    /\ symbol_cache = <<>>
    /\ captured_output = None
    /\ classes = <<>>
    /\ context_stack = <<>>
    /\ vm_symtab = symtab
    /\ status = "running"
    /\ interned = {}
    /\ host_calls = 0
    /\ vm_intern_calls = <<>>
    /\ stdout_buf = <<>>
    /\ console = <<>>
    /\ out_log = <<>>
    /\ out_calls = 0
    /\ vm_classes = <<>>
    /\ vm_evals = <<>>
    /\ rc = IF a[3] = NULL THEN 1 ELSE 2
    /\ borrows = 0
    /\ pc = "host"
    /\ frame = NoFrame
    /\ raise_log = <<>>
    /\ eval_result = None
    /\ vm_exc = None
    /\ exc_calls = 0
    /\ eval_stack = <<>>
    /\ eval_returned = None
    /\ modules = <<>>
    /\ reg_log = <<>>
    /\ exc_value = None
    /\ registry_at_new = <<>>
    /\ reg_calls = 0
    /\ last_call = [op |-> "new"]

\* ------------------------------------------------------------- State::close
\* The guards of close: a null VM handle, then a null user-data pointer.
close_checks_ud_only == ud = NULL
close_returns_early == mrb = NULL \/ ud = NULL

\* The teardown: free the compile context, close the VM, null both fields.
\* The user-data slot goes with the VM's memory and is never written.
close_teardown_keeps_mrb ==
    /\ sys_calls' = sys_calls \o <<[fn |-> "mrbc_context_free", arg |-> ctx],
                                   [fn |-> "mrb_close", arg |-> mrb]>>
    /\ vm_open' = FALSE
    /\ ctx' = NULL
    /\ UNCHANGED <<mrb, ud>>
close_teardown_vm_first ==
    /\ sys_calls' = sys_calls \o <<[fn |-> "mrb_close", arg |-> mrb],
                                   [fn |-> "mrbc_context_free", arg |-> ctx]>>
    /\ vm_open' = FALSE
    /\ ctx' = NULL
    /\ mrb' = NULL
    /\ UNCHANGED ud
close_teardown ==
    /\ sys_calls' = sys_calls \o <<[fn |-> "mrbc_context_free", arg |-> ctx],
                                   [fn |-> "mrb_close", arg |-> mrb]>>
    /\ vm_open' = FALSE
    /\ ctx' = NULL
    /\ mrb' = NULL
    /\ UNCHANGED ud

close ==
    /\ status = "running"
    /\ host_calls < MaxHostCalls
    /\ host_calls' = host_calls + 1
    /\ last_call' = [op |-> "close", mrb |-> mrb, ctx |-> ctx, ud |-> ud,
                     sys_calls |-> sys_calls]
    /\ IF close_returns_early
       THEN UNCHANGED <<mrb, ctx, ud, vm_open, sys_calls>>
       ELSE close_teardown
    /\ UNCHANGED <<created, symbol_cache, vm_symtab, status, interned, vm_intern_calls>>
    /\ UNCHANGED <<outVars, excVars, regVars>>

\* -------------------------------------------------------- State::sym_intern
\* sym.into(): the Cow the argument converts to, in either form.
Cows == [form : CowForms, bytes : Names]

\* The key a Cow is in the symbol cache: Cow hashes and compares as the slice
\* it holds, whichever form it has.
cow_key_with_form(sym) == <<sym.form, sym.bytes>>
cow_key(sym) == sym.bytes

\* sym.as_ref().len(), the length handed to the VM with the pointer.
off_by_one_len(sym) == IF Len(sym.bytes) = 0 THEN 0 ELSE Len(sym.bytes) - 1
as_ref_len(sym) == Len(sym.bytes)

\* The VM's symbol for a name: its index in the symbol table, 0 when the
\* name has not been interned.
sym_find(symtab, name) ==
    IF \E i \in 1..Len(symtab) : symtab[i] = name
    THEN CHOOSE i \in 1..Len(symtab) : symtab[i] = name
    ELSE 0

\* sys::mrb_intern_static(mrb, ptr, len): the symbol of the len bytes at ptr,
\* entered in the symbol table when it is new.
mrb_intern_static(symtab, bytes, len) ==
    LET name == SubSeq(bytes, 1, len)
        found == sym_find(symtab, name)
    IN  IF found # 0
        THEN [sym |-> found, symtab |-> symtab]
        ELSE [sym |-> Len(symtab) + 1, symtab |-> Append(symtab, name)]

\* HashMap::entry(key).or_insert_with(f): the map with the key bound.
cache_insert(cache, key, sym) ==
    [k \in DOMAIN cache \cup {key} |-> IF k = key THEN sym ELSE cache[k]]

\* The closure given to or_insert_with runs: one more call of
\* mrb_intern_static for the len bytes of the name.
intern_called(calls, sym) ==
    LET name == SubSeq(sym.bytes, 1, as_ref_len(sym))
    IN  [n \in DOMAIN calls \cup {name} |->
            IF n # name THEN calls[n]
            ELSE IF n \in DOMAIN calls THEN calls[n] + 1 ELSE 1]

\* What a call returned, kept for the record of an open interpreter only.
record_interned(sym, handle) ==
    IF vm_open
    THEN interned \cup {[name |-> sym.bytes, form |-> sym.form, handle |-> handle]}
    ELSE interned

\* A hit returns the cached symbol and does not enter the VM.
sym_intern_hit(sym) ==
    /\ cow_key(sym) \in DOMAIN symbol_cache
    /\ interned' = record_interned(sym, symbol_cache[cow_key(sym)])
    /\ last_call' = [op |-> "sym_intern", sym |-> sym, hit |-> TRUE,
                     ret |-> symbol_cache[cow_key(sym)]]
    /\ UNCHANGED <<symbol_cache, vm_symtab, status, vm_intern_calls>>

\* A miss on a live VM interns the name in the VM and caches the symbol.
sym_intern_miss(sym) ==
    LET r == mrb_intern_static(vm_symtab, sym.bytes, as_ref_len(sym))
    IN  /\ cow_key(sym) \notin DOMAIN symbol_cache
        /\ vm_open
        /\ Len(r.symtab) <= MaxSyms
        /\ vm_symtab' = r.symtab
        /\ vm_intern_calls' = intern_called(vm_intern_calls, sym)
        /\ symbol_cache' = cache_insert(symbol_cache, cow_key(sym), r.sym)
        /\ interned' = record_interned(sym, r.sym)
        /\ last_call' = [op |-> "sym_intern", sym |-> sym, hit |-> FALSE,
                         ret |-> r.sym]
        /\ UNCHANGED status

\* A miss with no live VM hands a null mrb to mrb_intern_static, which is
\* undefined: the call faults, or returns whatever it read and caches it.
sym_intern_undefined(sym) ==
    /\ cow_key(sym) \notin DOMAIN symbol_cache
    /\ ~vm_open
    /\ vm_intern_calls' = intern_called(vm_intern_calls, sym)
    /\ \/ /\ status' = "crashed"
          /\ last_call' = [op |-> "sym_intern", sym |-> sym, hit |-> FALSE,
                           ret |-> 0]
          /\ UNCHANGED <<symbol_cache, interned>>
       \/ \E garbage \in 0..MaxSyms :
             /\ symbol_cache' = cache_insert(symbol_cache, cow_key(sym), garbage)
             /\ interned' = record_interned(sym, garbage)
             /\ last_call' = [op |-> "sym_intern", sym |-> sym, hit |-> FALSE,
                              ret |-> garbage]
             /\ UNCHANGED status
    /\ UNCHANGED vm_symtab

sym_intern(sym) ==
    /\ status = "running"
    /\ host_calls < MaxHostCalls
    /\ host_calls' = host_calls + 1
    /\ \/ sym_intern_hit(sym)
       \/ sym_intern_miss(sym)
       \/ sym_intern_undefined(sym)
    /\ UNCHANGED <<created, mrb, ctx, ud, vm_open, sys_calls>>
    /\ UNCHANGED <<outVars, excVars, regVars>>

\* ---------------------------------------------------------- the output sink
\* The strings print and puts are called with.
Strs == {<<>>, <<"a">>, <<"b">>}

\* The index of the last newline of a text, 0 when it has none.
last_newline(text) ==
    IF \E i \in 1..Len(text) : text[i] = "\n"
    THEN CHOOSE i \in 1..Len(text) :
             text[i] = "\n" /\ \A j \in (i + 1)..Len(text) : text[j] # "\n"
    ELSE 0

\* A write to io::stdout(), which is line buffered: the text up to its last
\* newline goes to the console, the rest stays in the buffer.
stdout_write(out, text) ==
    LET all == out.buf \o text
        k == last_newline(all)
    IN  [console |-> out.console \o SubSeq(all, 1, k),
         buf |-> SubSeq(all, k + 1, Len(all)),
         flushes |-> out.flushes]

\* io::stdout().flush(): the buffer goes to the console.
stdout_flush(out) ==
    [console |-> out.console \o out.buf, buf |-> <<>>, flushes |-> out.flushes + 1]

\* Standard output as a call finds it; flushes counts the calls of
\* io::stdout().flush() the call makes.
stdout == [console |-> console, buf |-> stdout_buf, flushes |-> 0]

\* print!("{}", s) followed by io::stdout().flush().
print_without_flush(out, s) == stdout_write(out, s)
print_console(out, s) == stdout_flush(stdout_write(out, s))

\* println!("{}", s), which writes s and a newline.
println_without_newline(out, s) == stdout_write(out, s)
println_console(out, s) == stdout_write(out, s \o <<"\n">>)

\* captured_output.push_str(s).
print_captured(buf, s) == buf \o s

\* captured_output.push_str(s); captured_output.push('\n').
puts_captured_no_newline(buf, s) == buf \o s
puts_captured(buf, s) == Append(buf \o s, "\n")

\* Option::replace(String::default()) hands back the old value.
unwrap_panics(opt) == IF opt = None THEN <<"panic">> ELSE opt[1]
replaced_value(opt) == unwrap_or_default(opt)

out_call(op, s, flushes) ==
    /\ status = "running"
    /\ out_calls < MaxOutCalls
    /\ out_calls' = out_calls + 1
    /\ last_call' = [op |-> op, s |-> s, capturing |-> captured_output # None,
                     log |-> out_log, ret |-> <<>>, flushes |-> flushes]

capture_output ==
    /\ out_call("capture_output", <<>>, 0)
    /\ captured_output' = Some(<<>>)
    /\ out_log' = <<>>
    /\ UNCHANGED <<stdout_buf, console>>
    /\ UNCHANGED <<hostVars, excVars, regVars>>

get_and_clear_captured_output ==
    /\ status = "running"
    /\ out_calls < MaxOutCalls
    /\ out_calls' = out_calls + 1
    /\ last_call' = [op |-> "get_and_clear_captured_output", s |-> <<>>,
                     capturing |-> captured_output # None, log |-> out_log,
                     ret |-> replaced_value(captured_output)]
    /\ captured_output' = Some(<<>>)
    /\ out_log' = <<>>
    /\ UNCHANGED <<stdout_buf, console>>
    /\ UNCHANGED <<hostVars, excVars, regVars>>

print(s) ==
    /\ out_log' = Append(out_log, [op |-> "print", s |-> s])
    /\ IF captured_output # None
       THEN /\ out_call("print", s, 0)
            /\ captured_output' = Some(print_captured(captured_output[1], s))
            /\ UNCHANGED <<stdout_buf, console>>
       ELSE LET out == print_console(stdout, s)
            IN  /\ out_call("print", s, out.flushes)
                /\ console' = out.console
                /\ stdout_buf' = out.buf
                /\ UNCHANGED captured_output
    /\ UNCHANGED <<hostVars, excVars, regVars>>

puts(s) ==
    /\ out_log' = Append(out_log, [op |-> "puts", s |-> s])
    /\ IF captured_output # None
       THEN /\ out_call("puts", s, 0)
            /\ captured_output' = Some(puts_captured(captured_output[1], s))
            /\ UNCHANGED <<stdout_buf, console>>
       ELSE LET out == println_console(stdout, s)
            IN  /\ out_call("puts", s, out.flushes)
                /\ console' = out.console
                /\ stdout_buf' = out.buf
                /\ UNCHANGED captured_output
    /\ UNCHANGED <<hostVars, excVars, regVars>>

\* An interpreter as crate::interpreter hands it out: both handles and the
\* user-data back-reference set.
InitOut == new(<<"mrb", "ctx", "ud">>, <<>>)

NextOut ==
    \/ capture_output
    \/ get_and_clear_captured_output
    \/ \E s \in Strs : print(s)
    \/ \E s \in Strs : puts(s)

SpecOut == InitOut /\ [][NextOut]_vars


\* ------------------------------------------------- the class registry
\* State::def_class::<T>(spec): HashMap::insert under TypeId::of::<T>().
def_class_keeps_first(reg, T, spec) ==
    [t \in DOMAIN reg \cup {T} |-> IF t \in DOMAIN reg THEN reg[t] ELSE spec]
def_class(reg, T, spec) ==
    [t \in DOMAIN reg \cup {T} |-> IF t = T THEN spec ELSE reg[t]]

\* State::class_spec::<T>(): the spec registered for T, if any.
class_spec(reg, T) == IF T \in DOMAIN reg THEN Some(reg[T]) ELSE None

\* State::def_module::<T>(spec): HashMap::insert under TypeId::of::<T>().
def_module_any_type(reg, T, spec) == [t \in DOMAIN reg \cup {T} |-> spec]
def_module(reg, T, spec) ==
    [t \in DOMAIN reg \cup {T} |-> IF t = T THEN spec ELSE reg[t]]

\* State::module_spec::<T>(): the spec registered for T, if any.
module_spec(reg, T) == IF T \in DOMAIN reg THEN Some(reg[T]) ELSE None

\* ------------------------------------------------------- exception::init
\* The classes init builds, in the order it defines and registers them:
\* the host type, the guest class name, the host type of the superclass.
Hierarchy == <<
    [type |-> "Exception", name |-> "Exception", super |-> None],
    [type |-> "NoMemoryError", name |-> "NoMemoryError", super |-> Some("Exception")],
    [type |-> "ScriptError", name |-> "ScriptError", super |-> Some("Exception")],
    [type |-> "LoadError", name |-> "LoadError", super |-> Some("ScriptError")],
    [type |-> "NotImplementedError", name |-> "NotImplementedError", super |-> Some("ScriptError")],
    [type |-> "SyntaxError", name |-> "SyntaxError", super |-> Some("ScriptError")],
    [type |-> "SecurityError", name |-> "SecurityError", super |-> Some("Exception")],
    [type |-> "SignalException", name |-> "SignalException", super |-> Some("Exception")],
    [type |-> "Interrupt", name |-> "Interrupt", super |-> Some("SignalException")],
    [type |-> "StandardError", name |-> "StandardError", super |-> Some("Exception")],
    [type |-> "ArgumentError", name |-> "ArgumentError", super |-> Some("StandardError")],
    [type |-> "UncaughtThrowError", name |-> "UncaughtThrowError", super |-> Some("ArgumentError")],
    [type |-> "EncodingError", name |-> "EncodingError", super |-> Some("StandardError")],
    [type |-> "FiberError", name |-> "FiberError", super |-> Some("StandardError")],
    [type |-> "IOError", name |-> "IOError", super |-> Some("StandardError")],
    [type |-> "EOFError", name |-> "EOFError", super |-> Some("IOError")],
    [type |-> "IndexError", name |-> "IndexError", super |-> Some("StandardError")],
    [type |-> "KeyError", name |-> "KeyError", super |-> Some("IndexError")],
    [type |-> "StopIteration", name |-> "StopIteration", super |-> Some("IndexError")],
    [type |-> "LocalJumpError", name |-> "LocalJumpError", super |-> Some("StandardError")],
    [type |-> "NameError", name |-> "NameError", super |-> Some("StandardError")],
    [type |-> "NoMethodError", name |-> "NoMethodError", super |-> Some("NameError")],
    [type |-> "RangeError", name |-> "RangeError", super |-> Some("StandardError")],
    [type |-> "FloatDomainError", name |-> "FloatDomainError", super |-> Some("RangeError")],
    [type |-> "RegexpError", name |-> "RegexpError", super |-> Some("StandardError")],
    [type |-> "RuntimeError", name |-> "RuntimeError", super |-> Some("StandardError")],
    [type |-> "FrozenError", name |-> "FrozenError", super |-> Some("RuntimeError")],
    [type |-> "SystemCallError", name |-> "SystemCallError", super |-> Some("StandardError")],
    [type |-> "ThreadError", name |-> "ThreadError", super |-> Some("StandardError")],
    [type |-> "TypeError", name |-> "TypeError", super |-> Some("StandardError")],
    [type |-> "ZeroDivisionError", name |-> "ZeroDivisionError", super |-> Some("StandardError")],
    [type |-> "SystemExit", name |-> "SystemExit", super |-> Some("Exception")],
    [type |-> "SystemStackError", name |-> "SystemStackError", super |-> Some("Exception")],
    [type |-> "Fatal", name |-> "fatal", super |-> Some("Exception")] >>

\* The guest name of the class spec bound to a host type of the hierarchy.
spec_name(T) == Hierarchy[CHOOSE i \in 1..Len(Hierarchy) : Hierarchy[i].type = T].name

\* The superclass init gives with_super_class for a class of the hierarchy:
\* the class of the spec it names, the VM's Object when it names none.
super_class_is_root(h) == IF h.super = None THEN "Object" ELSE "Exception"
super_class(h) == IF h.super = None THEN "Object" ELSE spec_name(h.super[1])

\* class::Builder::for_spec(interp, spec).with_super_class(super).define():
\* the guest VM's class table with the class entered under its name; a class
\* that is there already is kept.
define(vmc, h) ==
    IF h.name \in DOMAIN vmc THEN vmc
    ELSE [n \in DOMAIN vmc \cup {h.name} |->
            IF n # h.name THEN vmc[n] ELSE super_class(h)]

\* The first n classes of the hierarchy defined, one after the other.
RECURSIVE define_first(_, _)
define_first(vmc, n) ==
    IF n = 0 THEN vmc ELSE define(define_first(vmc, n - 1), Hierarchy[n])

\* The first n specs of the hierarchy registered, one after the other.
RECURSIVE def_class_first(_, _)
def_class_first(reg, n) ==
    IF n = 0 THEN reg
    ELSE def_class(def_class_first(reg, n - 1), Hierarchy[n].type,
                   [name |-> Hierarchy[n].name, super |-> Hierarchy[n].super])

\* The registry init leaves: the `?` of a define() that fails returns before
\* any def_class; all 34 specs are registered when every define() succeeded.
init_registers_defined(reg, fail_at) ==
    def_class_first(reg, IF fail_at = 0 THEN Len(Hierarchy) ELSE fail_at - 1)
init_registers(reg, fail_at) ==
    IF fail_at # 0 THEN reg ELSE def_class_first(reg, Len(Hierarchy))

\* The borrows of the state held when init calls eval: the shared borrow
\* taken on entry is dropped, then the mutable one taken for the registry
\* writes is dropped.
init_eval_borrows_kept(b) == ((b + 1) - 1) + 1
init_eval_borrows(b) == (((b + 1) - 1) + 1) - 1

\* exception::init.  fail_at is the define() that returns Err, 0 when none
\* does; source_ok is whether exception.rb evaluates without error.  Nothing
\* looks at the registry on entry.  The shared borrow taken on entry is
\* dropped before the registry is written, and the eval pushes and pops its
\* own context.
init(fail_at, source_ok) ==
    LET defined == IF fail_at = 0 THEN Len(Hierarchy) ELSE fail_at - 1
        attempted == IF fail_at = 0 THEN Len(Hierarchy) ELSE fail_at
        call == [op |-> "init", registered |-> "Exception" \in DOMAIN classes,
                 classes |-> classes, vm_classes |-> vm_classes]
    IN  /\ status = "running"
        /\ pc = "host"
        /\ exc_calls < MaxExcCalls
        /\ exc_calls' = exc_calls + 1
        /\ vm_classes' = define_first(vm_classes, defined)
        /\ classes' = init_registers(classes, fail_at)
        /\ IF fail_at # 0
           THEN /\ UNCHANGED vm_evals
                /\ last_call' = call @@
                                [defines |-> attempted, writes |-> 0, evals |-> 0,
                                 eval_borrows |-> 0, ret |-> "Err"]
           ELSE /\ vm_evals' = Append(vm_evals, "exception.rb")
                /\ last_call' = call @@
                                [defines |-> attempted, writes |-> Len(Hierarchy),
                                 evals |-> 1, eval_borrows |-> init_eval_borrows(borrows),
                                 ret |-> IF source_ok THEN "Ok" ELSE "Err"]
        /\ UNCHANGED <<context_stack, rc, borrows, pc, frame, raise_log, eval_result, vm_exc,
                       eval_stack, eval_returned>>
        /\ UNCHANGED <<hostVars, outVars, regVars>>

\* ------------------------------------------------------ RubyException
\* The exception kinds native code raises here, and their messages.
RaiseTypes == {"Exception", "RuntimeError", "Fatal"}
Messages == {"", "something went wrong"}

\* $exception::new(interp, message): the message and a clone of the handle.
exception_new(T, message) == [type |-> T, message |-> message]

\* RubyException::message.
exception_message(e) == e.message

\* RubyException::name: the name of the spec registered for the type,
\* the empty string when none is.
exception_name_at_construction(reg, e) ==
    IF e.type \in DOMAIN registry_at_new THEN registry_at_new[e.type].name ELSE ""
exception_name(reg, e) ==
    LET spec == class_spec(reg, e.type)
    IN  IF spec = None THEN "" ELSE spec[1].name

\* RubyException::rclass: the guest class of the spec registered for the
\* type; spec.rclass is the class the VM holds under the spec's name.
exception_rclass(reg, vmc, e) ==
    LET spec == class_spec(reg, e.type)
    IN  IF spec = None THEN None
        ELSE IF spec[1].name \in DOMAIN vmc THEN Some(spec[1].name) ELSE None

\* ---------------------------------------------------------------- eval
\* Eval::TOP_FILENAME.
TOP_FILENAME == "(eval)"

\* The guest code given to eval: the line its call into native code is on.
Lines == 1..MaxLine

\* Eval::push_context, Eval::pop_context and Eval::peek_context.
push_context(stack, context) == Append(stack, context)
pop_context(stack) == IF stack = <<>> THEN stack ELSE SubSeq(stack, 1, Len(stack) - 1)
peek_context(stack) == IF stack = <<>> THEN None ELSE Some(stack[Len(stack)])

\* The contexts the host pushes by itself, for the files it loads.
Contexts == {"init.rb"}

\* The host pushes a context around work of its own (Eval::push_context).
host_push_context(context) ==
    /\ status = "running"
    /\ pc = "host"
    /\ exc_calls < MaxExcCalls
    /\ exc_calls' = exc_calls + 1
    /\ context_stack' = push_context(context_stack, context)
    /\ last_call' = [op |-> "push_context", context |-> context]
    /\ UNCHANGED <<classes, vm_classes, vm_evals, rc, borrows, pc, frame, raise_log,
                   eval_result, vm_exc, eval_stack, eval_returned>>
    /\ UNCHANGED <<hostVars, outVars, regVars>>

\* Where control is after an eval returned: in the host, or in the guest
\* code of the eval that made the call.
pc_after_eval == IF Len(eval_stack) = 1 THEN "host" ELSE "guest"

\* What an eval that returns leaves behind: the way it returned, the context
\* stack it found, the one it leaves and how many evals it ran inside.
returned(kind, after) ==
    Some([kind |-> kind, before |-> eval_stack[Len(eval_stack)].before, after |-> after,
          level |-> Len(eval_stack)])

\* eval(code): push the top context and enter the guest VM under a
\* protected call.  Guest code may call back into the host, which may call
\* eval again.
eval_enter ==
    /\ status = "running"
    /\ pc \in {"host", "guest"}
    /\ eval_stack' = Append(eval_stack, [before |-> context_stack])
    /\ eval_returned' = None
    /\ vm_open
    /\ exc_calls < MaxExcCalls
    /\ exc_calls' = exc_calls + 1
    /\ context_stack' = push_context(context_stack, TOP_FILENAME)
    /\ pc' = "guest"
    /\ eval_result' = None
    /\ last_call' = [op |-> "eval", depth |-> Len(context_stack)]
    /\ UNCHANGED <<classes, vm_classes, vm_evals, rc, borrows, frame, raise_log, vm_exc>>
    /\ UNCHANGED <<hostVars, outVars, regVars>>

eval_return_without_pop ==
    /\ status = "running"
    /\ pc = "guest"
    /\ pc' = pc_after_eval
    /\ eval_result' = Some([ok |-> TRUE])
    /\ eval_stack' = SubSeq(eval_stack, 1, Len(eval_stack) - 1)
    /\ eval_returned' = returned("Ok", context_stack)
    /\ last_call' = [op |-> "eval_return"]
    /\ UNCHANGED <<classes, vm_classes, vm_evals, rc, borrows, frame, raise_log, vm_exc,
                   exc_calls, context_stack>>
    /\ UNCHANGED <<hostVars, outVars, regVars>>
\* The guest code runs to its end: eval pops its context and returns Ok.
eval_return ==
    /\ status = "running"
    /\ pc = "guest"
    /\ context_stack' = pop_context(context_stack)
    /\ pc' = pc_after_eval
    /\ eval_result' = Some([ok |-> TRUE])
    /\ eval_stack' = SubSeq(eval_stack, 1, Len(eval_stack) - 1)
    /\ eval_returned' = returned("Ok", context_stack')
    /\ last_call' = [op |-> "eval_return"]
    /\ UNCHANGED <<classes, vm_classes, vm_evals, rc, borrows, frame, raise_log, vm_exc,
                   exc_calls>>
    /\ UNCHANGED <<hostVars, outVars, regVars>>

\* The display form of a guest exception caught by eval: the first line of
\* its backtrace, its message and its class.
exec_display(label, line, e) ==
    label \o ":" \o ToString(line) \o ": " \o e.message \o " (" \o e.class \o ")"

eval_catch_without_pop ==
    /\ status = "running"
    /\ pc = "unwinding"
    /\ pc' = pc_after_eval
    /\ eval_stack' = SubSeq(eval_stack, 1, Len(eval_stack) - 1)
    /\ eval_returned' = returned("Err", context_stack)
    /\ eval_result' = Some([ok |-> FALSE, class |-> vm_exc[1].class,
                            message |-> vm_exc[1].message,
                            display |-> exec_display(peek_context(context_stack)[1],
                                                     vm_exc[1].line, vm_exc[1])])
    /\ vm_exc' = None
    /\ frame' = NoFrame
    /\ UNCHANGED <<classes, vm_classes, vm_evals, rc, borrows, raise_log, exc_calls,
                   context_stack, last_call>>
    /\ UNCHANGED <<hostVars, outVars, regVars>>
\* The protected call catches the exception raised in the guest: eval pops
\* its context and returns ArtichokeError::Exec with the display form.
eval_catch ==
    /\ status = "running"
    /\ pc = "unwinding"
    /\ context_stack' = pop_context(context_stack)
    /\ pc' = pc_after_eval
    /\ eval_stack' = SubSeq(eval_stack, 1, Len(eval_stack) - 1)
    /\ eval_returned' = returned("Err", context_stack')
    /\ eval_result' = Some([ok |-> FALSE, class |-> vm_exc[1].class,
                            message |-> vm_exc[1].message,
                            display |-> exec_display(peek_context(context_stack)[1],
                                                     vm_exc[1].line, vm_exc[1])])
    /\ vm_exc' = None
    /\ frame' = NoFrame
    /\ UNCHANGED <<classes, vm_classes, vm_evals, rc, borrows, raise_log, exc_calls,
                   last_call>>
    /\ UNCHANGED <<hostVars, outVars, regVars>>

\* ------------------------------------------------------ the native entry
\* A native function called from guest code on the given line (tests::Run::run):
\* unwrap_interpreter! clones the handle out of the VM's user data, the
\* exception holds a second clone, and both are handed to raise.
native_raise(T, message, line) ==
    /\ status = "running"
    /\ pc = "guest"
    /\ rc' = rc + 2
    /\ frame' = [NoFrame EXCEPT !.interp = TRUE,
                                !.exception = Some(exception_new(T, message))] @@
                [line |-> line, owners |-> rc]
    /\ raise_log' = <<>>
    /\ pc' = "raise"
    /\ last_call' = [op |-> "native_raise", type |-> T, message |-> message,
                     line |-> line]
    /\ UNCHANGED <<classes, vm_classes, vm_evals, context_stack, borrows, eval_result,
                   vm_exc, exc_calls, eval_stack, eval_returned>>
    /\ UNCHANGED <<hostVars, outVars, regVars>>

\* --------------------------------------------------------------- raise
\* What is live in raise's frame, recorded with every step it takes.
raise_step(name) ==
    [step |-> name, interp |-> frame.interp, exception |-> frame.exception # None,
     borrows |-> borrows]

raise_frame ==
    /\ status = "running"
    /\ UNCHANGED <<classes, vm_classes, vm_evals, context_stack, eval_result, exc_calls,
                   eval_stack, eval_returned, last_call>>

\* let mrb = interp.0.borrow().mrb: the borrow is a temporary of the statement.
raise_read_mrb ==
    /\ pc = "raise"
    /\ borrows' = (borrows + 1) - 1
    /\ frame' = [frame EXCEPT !.mrb = mrb]
    /\ raise_log' = Append(raise_log, raise_step("mrb"))
    /\ pc' = "raise_rclass"
    /\ UNCHANGED <<rc, vm_exc>>
    /\ raise_frame
    /\ UNCHANGED <<hostVars, outVars, regVars>>

\* exception.rclass() resolved: go on with the class.
raise_rclass ==
    /\ pc = "raise_rclass"
    /\ exception_rclass(classes, vm_classes, frame.exception[1]) # None
    /\ frame' = [frame EXCEPT !.eclass = exception_rclass(classes, vm_classes,
                                                          frame.exception[1])]
    /\ raise_log' = Append(raise_log, raise_step("rclass"))
    /\ pc' = "raise_convert"
    /\ UNCHANGED <<rc, borrows, vm_exc>>
    /\ raise_frame
    /\ UNCHANGED <<hostVars, outVars, regVars>>

\* exception.rclass() is None: panic!("unable to raise {}", exception.name()).
raise_returns_error ==
    /\ pc = "raise_rclass"
    /\ exception_rclass(classes, vm_classes, frame.exception[1]) = None
    /\ raise_log' = Append(raise_log, raise_step("error"))
    /\ pc' = "host"
    /\ eval_result' = Some([ok |-> FALSE])
    /\ context_stack' = pop_context(context_stack)
    /\ status = "running"
    /\ UNCHANGED <<rc, borrows, vm_exc, frame, classes, vm_classes, vm_evals, exc_calls,
                   eval_stack, eval_returned, last_call>>
    /\ UNCHANGED <<hostVars, outVars, regVars>>
raise_panic ==
    /\ pc = "raise_rclass"
    /\ exception_rclass(classes, vm_classes, frame.exception[1]) = None
    /\ raise_log' = Append(raise_log, raise_step("panic"))
    /\ pc' = "aborted"
    /\ status' = "crashed"
    /\ UNCHANGED <<rc, borrows, vm_exc, frame>>
    /\ raise_frame
    /\ UNCHANGED <<created, mrb, ctx, ud, vm_open, sys_calls, symbol_cache, vm_symtab,
                   interned, host_calls, vm_intern_calls>>
    /\ UNCHANGED <<outVars, regVars>>

\* let formatargs = interp.convert(exception.message()).inner().
empty_formatargs(e) == ""
raise_formatargs(e) == exception_message(e)

raise_convert ==
    /\ pc = "raise_convert"
    /\ frame' = [frame EXCEPT !.formatargs = Some(raise_formatargs(frame.exception[1]))]
    /\ raise_log' = Append(raise_log, raise_step("convert"))
    /\ pc' = "raise_drop_interp"
    /\ UNCHANGED <<rc, borrows, vm_exc>>
    /\ raise_frame
    /\ UNCHANGED <<hostVars, outVars, regVars>>

\* drop(interp).
raise_keep_interp ==
    /\ pc = "raise_drop_interp"
    /\ raise_log' = Append(raise_log, raise_step("drop_interp"))
    /\ pc' = "raise_drop_exception"
    /\ UNCHANGED <<rc, frame, borrows, vm_exc>>
    /\ raise_frame
    /\ UNCHANGED <<hostVars, outVars, regVars>>
raise_drop_interp ==
    /\ pc = "raise_drop_interp"
    /\ rc' = rc - 1
    /\ frame' = [frame EXCEPT !.interp = FALSE]
    /\ raise_log' = Append(raise_log, raise_step("drop_interp"))
    /\ pc' = "raise_drop_exception"
    /\ UNCHANGED <<borrows, vm_exc>>
    /\ raise_frame
    /\ UNCHANGED <<hostVars, outVars, regVars>>

\* drop(exception), which drops the handle the exception holds.
raise_keep_exception ==
    /\ pc = "raise_drop_exception"
    /\ raise_log' = Append(raise_log, raise_step("drop_exception"))
    /\ pc' = "raise_jump"
    /\ UNCHANGED <<rc, frame, borrows, vm_exc>>
    /\ raise_frame
    /\ UNCHANGED <<hostVars, outVars, regVars>>
raise_drop_exception ==
    /\ pc = "raise_drop_exception"
    /\ rc' = rc - 1
    /\ frame' = [frame EXCEPT !.exception = None]
    /\ raise_log' = Append(raise_log, raise_step("drop_exception"))
    /\ pc' = "raise_jump"
    /\ UNCHANGED <<borrows, vm_exc>>
    /\ raise_frame
    /\ UNCHANGED <<hostVars, outVars, regVars>>

\* sys::mrb_raisef(mrb, eclass, "%S", formatargs): the VM builds the
\* exception and jumps to the nearest protected call.
raise_jump ==
    /\ pc = "raise_jump"
    /\ vm_exc' = Some([class |-> frame.eclass[1], message |-> frame.formatargs[1],
                       line |-> frame.line])
    /\ raise_log' = Append(raise_log, raise_step("mrb_raisef"))
    /\ pc' = "unwinding"
    /\ UNCHANGED <<rc, borrows, frame>>
    /\ raise_frame
    /\ UNCHANGED <<hostVars, outVars, regVars>>

InitExc == new(<<"mrb", "ctx", "ud">>, <<>>)

NextExc ==
    \/ \E fail_at \in 0..Len(Hierarchy), source_ok \in BOOLEAN : init(fail_at, source_ok)
    \/ \E context \in Contexts : host_push_context(context)
    \/ eval_enter
    \/ eval_return
    \/ eval_catch
    \/ \E T \in RaiseTypes, message \in Messages, line \in Lines :
          native_raise(T, message, line)
    \/ raise_read_mrb
    \/ raise_rclass
    \/ raise_panic
    \/ raise_convert
    \/ raise_drop_interp
    \/ raise_drop_exception
    \/ raise_jump

SpecExc == InitExc /\ [][NextExc]_vars

\* ------------------------------------------- the guarded initializers
\* enumerator::init, float::init and numeric::init: the host type, the name
\* of the class spec and the guest sources evaluated, in order.
GuardedInits == <<
    [type |-> "Enumerator", name |-> "Enumerator",
     sources |-> <<"enumerator.rb", "lazy.rb">>],
    [type |-> "Float", name |-> "Float",
     sources |-> <<"float.rb", "class Float; EPSILON">>],
    [type |-> "Numeric", name |-> "Numeric", sources |-> <<"numeric.rb">>] >>

\* if interp.0.borrow().class_spec::<T>().is_some() { return Ok(()); }
init_never_returns_early(reg, T) == FALSE
init_returns_early(reg, T) == class_spec(reg, T) # None

\* interp.eval(source)? for each source in turn: the sources evaluated when
\* the fail_at-th eval returns Err (all of them when fail_at is 0).
evaluated(sources, fail_at) ==
    IF fail_at = 0 THEN sources ELSE SubSeq(sources, 1, fail_at)

\* A guarded initializer: return at once when the spec is registered, else
\* register the spec and then evaluate the sources.  Each eval pushes and
\* pops its own context.
guarded_init(g, fail_at) ==
    LET call == [op |-> "guarded_init", type |-> g.type,
                 registered |-> class_spec(classes, g.type) # None,
                 classes |-> classes, vm_evals |-> vm_evals]
    IN  /\ status = "running"
        /\ pc = "host"
        /\ exc_calls < MaxExcCalls
        /\ exc_calls' = exc_calls + 1
        /\ IF init_returns_early(classes, g.type)
           THEN /\ fail_at = 0
                /\ UNCHANGED <<classes, vm_evals>>
                /\ last_call' = call @@ [writes |-> 0, evals |-> <<>>, ret |-> "Ok"]
           ELSE /\ classes' = def_class(classes, g.type, [name |-> g.name, super |-> None])
                /\ vm_evals' = vm_evals \o evaluated(g.sources, fail_at)
                /\ last_call' = call @@
                                [writes |-> 1, evals |-> evaluated(g.sources, fail_at),
                                 ret |-> IF fail_at = 0 THEN "Ok" ELSE "Err"]
        /\ UNCHANGED <<vm_classes, context_stack, rc, borrows, pc, frame, raise_log,
                       eval_result, vm_exc, eval_stack, eval_returned>>
        /\ UNCHANGED <<hostVars, outVars, regVars>>

enumerator_init(fail_at) == guarded_init(GuardedInits[1], fail_at)
float_init(fail_at) == guarded_init(GuardedInits[2], fail_at)
numeric_init(fail_at) == guarded_init(GuardedInits[3], fail_at)

InitGuarded == new(<<"mrb", "ctx", "ud">>, <<>>)

NextGuarded ==
    \/ \E fail_at \in 0..Len(GuardedInits[1].sources) : enumerator_init(fail_at)
    \/ \E fail_at \in 0..Len(GuardedInits[2].sources) : float_init(fail_at)
    \/ \E fail_at \in 0..Len(GuardedInits[3].sources) : numeric_init(fail_at)

SpecGuarded == InitGuarded /\ [][NextGuarded]_vars

\* ------------------------------------------ the registries, called directly
\* The host types used as registry keys, the class specs and the module
\* specs registered under them.
RegTypes == {"RuntimeError", "Fatal"}
ClassSpecs ==
    { [name |-> Hierarchy[i].name, super |-> Hierarchy[i].super] :
        i \in {i \in 1..Len(Hierarchy) : Hierarchy[i].type \in RegTypes} }
ModuleSpecs == {[name |-> "Kernel"], [name |-> "Comparable"]}

\* What every registry call does beside its own effect.
reg_frame ==
    /\ status = "running"
    /\ pc = "host"
    /\ reg_calls < MaxRegCalls
    /\ reg_calls' = reg_calls + 1
    /\ UNCHANGED <<vm_evals, context_stack, borrows, pc, frame, raise_log, eval_result,
                   vm_exc, exc_calls, eval_stack, eval_returned>>
    /\ UNCHANGED <<hostVars, outVars>>

\* interp.0.borrow_mut().def_class::<T>(spec).
def_class_call(T, spec) ==
    /\ classes' = def_class(classes, T, spec)
    /\ reg_log' = Append(reg_log, [registry |-> "classes", type |-> T, spec |-> spec])
    /\ last_call' = [op |-> "def_class", type |-> T, spec |-> spec]
    /\ UNCHANGED <<modules, vm_classes, rc, exc_value, registry_at_new>>
    /\ reg_frame

\* interp.0.borrow_mut().def_module::<T>(spec).
def_module_call(T, spec) ==
    /\ modules' = def_module(modules, T, spec)
    /\ reg_log' = Append(reg_log, [registry |-> "modules", type |-> T, spec |-> spec])
    /\ last_call' = [op |-> "def_module", type |-> T, spec |-> spec]
    /\ UNCHANGED <<classes, vm_classes, rc, exc_value, registry_at_new>>
    /\ reg_frame

\* class::Builder::for_spec(interp, spec).define(): the class of a spec is
\* defined in the guest VM.
define_call(spec) ==
    /\ vm_open
    /\ vm_classes' = define(vm_classes, spec)
    /\ last_call' = [op |-> "define", spec |-> spec]
    /\ UNCHANGED <<classes, modules, reg_log, rc, exc_value, registry_at_new>>
    /\ reg_frame

\* $exception::new(interp, message): the host constructs an exception value
\* and keeps it; the value holds a clone of the interpreter handle.
exception_new_call(T, message) ==
    /\ exc_value = None
    /\ exc_value' = Some(exception_new(T, message))
    /\ registry_at_new' = classes
    /\ rc' = rc + 1
    /\ last_call' = [op |-> "new_exception", type |-> T]
    /\ UNCHANGED <<classes, modules, reg_log, vm_classes>>
    /\ reg_frame

\* exception.name() on the value the host holds.
exception_name_call ==
    /\ exc_value # None
    /\ last_call' = [op |-> "name", type |-> exc_value[1].type,
                     ret |-> exception_name(classes, exc_value[1])]
    /\ UNCHANGED <<classes, modules, reg_log, vm_classes, rc, exc_value, registry_at_new>>
    /\ reg_frame

\* exception.rclass() on the value the host holds.
exception_rclass_call ==
    /\ exc_value # None
    /\ last_call' = [op |-> "rclass", type |-> exc_value[1].type,
                     ret |-> exception_rclass(classes, vm_classes, exc_value[1])]
    /\ UNCHANGED <<classes, modules, reg_log, vm_classes, rc, exc_value, registry_at_new>>
    /\ reg_frame

InitReg == new(<<"mrb", "ctx", "ud">>, <<>>)

NextReg ==
    \/ \E T \in RegTypes, spec \in ClassSpecs : def_class_call(T, spec)
    \/ \E T \in RegTypes, spec \in ModuleSpecs : def_module_call(T, spec)
    \/ \E spec \in ClassSpecs : define_call(spec)
    \/ \E T \in RegTypes : exception_new_call(T, "something went wrong")
    \/ exception_name_call
    \/ exception_rclass_call

SpecReg == InitReg /\ [][NextReg]_vars

\* ------------------------------------------------------- the host state
Init == \E a \in NewArgs, symtab \in VmBootSymtabs : new(a, symtab)

Next ==
    \/ close
    \/ \E sym \in Cows : sym_intern(sym)

Spec == Init /\ [][Next]_vars

\* ================================================================ claims
\* The number of calls of VM primitive fn that close has made.
SysCallCount(fn) == Cardinality({i \in 1..Len(sys_calls) : sys_calls[i].fn = fn})

\* What close's teardown adds to the calls into the VM, given the handles
\* the State held when close was called.
TeardownCalls(c) == <<[fn |-> "mrbc_context_free", arg |-> c.ctx],
                      [fn |-> "mrb_close", arg |-> c.mrb]>>

\* C5, as stated: close() on an open State (a non-null VM handle) frees the
\* compile context, closes the VM and leaves mrb and ctx null after that
\* first call.
C5_CloseOnOpenStateTearsDown ==
    (last_call.op = "close" /\ last_call.mrb # NULL) =>
        /\ mrb = NULL
        /\ ctx = NULL
        /\ ~vm_open
        /\ sys_calls = last_call.sys_calls \o TeardownCalls(last_call)

\* C5, amended: close() on a State whose VM handle and whose VM's user-data
\* pointer are both non-null frees the compile context, closes the VM and
\* leaves mrb and ctx null; with a null VM handle or a null user-data pointer
\* close() is a no-op that frees nothing and leaves the handles as they were;
\* neither the compile context nor the VM is ever freed twice, and close
\* never faults.
C5_CloseIdempotent ==
    /\ SysCallCount("mrbc_context_free") <= 1
    /\ SysCallCount("mrb_close") <= 1
    /\ last_call.op = "close" =>
          /\ status = "running"
          /\ IF last_call.mrb # NULL /\ last_call.ud # NULL
             THEN /\ mrb = NULL
                  /\ ctx = NULL
                  /\ ~vm_open
                  /\ sys_calls = last_call.sys_calls \o TeardownCalls(last_call)
             ELSE /\ mrb = last_call.mrb
                  /\ ctx = last_call.ctx
                  /\ sys_calls = last_call.sys_calls

\* A second close() has returned after the first one tore the VM down.
C5_Witness ==
    /\ last_call.op = "close"
    /\ last_call.mrb = NULL
    /\ created.mrb # NULL
    /\ Len(sys_calls) = 2

\* C6: for a State created with non-null handles, the VM handle is non-null
\* iff the VM is open, the compile-context handle is null exactly when the VM
\* handle is, and a handle that is null stays null.
C6_HandlesTrackOpen ==
    /\ []((created.mrb # NULL /\ created.ctx # NULL) =>
            /\ (mrb # NULL) <=> vm_open
            /\ (ctx = NULL) <=> (mrb = NULL))
    /\ [][/\ mrb = NULL => mrb' = NULL
          /\ ctx = NULL => ctx' = NULL]_vars

\* A State created with non-null handles has been closed.
C6_Witness ==
    /\ created.mrb # NULL
    /\ created.ctx # NULL
    /\ last_call.op = "close"
    /\ mrb = NULL
    /\ ~vm_open

\* C7: on an open interpreter, two sym_intern calls return the same handle
\* iff their names are equal byte for byte, whatever form the names came in.
C7_InternIdempotentInjective ==
    \A a, b \in interned : (a.name = b.name) <=> (a.handle = b.handle)

\* The same name has been interned in both forms, and another name too.
C7_Witness ==
    /\ \E a, b \in interned : a.name = b.name /\ a.form # b.form
    /\ \E a, b \in interned : a.name # b.name /\ Len(a.name) = Len(b.name)

\* The text a sequence of print/puts calls writes: every print argument,
\* and every puts argument followed by a newline, in call order.
RECURSIVE Written(_)
Written(log) ==
    IF log = <<>> THEN <<>>
    ELSE LET c == Head(log)
         IN  (IF c.op = "puts" THEN c.s \o <<"\n">> ELSE c.s) \o Written(Tail(log))

\* C8: while capture is active, a drain returns the concatenation, in call
\* order, of what print and puts were given since capture_output() or the
\* previous drain (puts with a newline added), and it leaves the buffer
\* empty, so that a drain right after it returns the empty string.
C8_DrainReturnsWritten ==
    (last_call.op = "get_and_clear_captured_output" /\ last_call.capturing) =>
        /\ last_call.ret = Written(last_call.log)
        /\ captured_output = Some(<<>>)
        /\ out_log = <<>>

\* capture_output(); puts("a"); puts("b"); the drain returned "a\nb\n".
C8_Witness ==
    /\ last_call.op = "get_and_clear_captured_output"
    /\ last_call.capturing
    /\ last_call.log = <<[op |-> "puts", s |-> <<"a">>], [op |-> "puts", s |-> <<"b">>]>>
    /\ last_call.ret = <<"a", "\n", "b", "\n">>

\* What print(s) or puts(s) is to write.
TextOf(c) == IF c.op = "puts" THEN c.s \o <<"\n">> ELSE c.s

\* C9: print(s) writes s and puts(s) writes s and one newline; while capture
\* is active the text is appended to the capture buffer and stdout is left
\* alone, otherwise the text is written to stdout and the buffer is left
\* alone.
C9_RoutedByCaptureMode ==
    [][last_call'.op \in {"print", "puts"} =>
         IF captured_output # None
         THEN /\ captured_output' = Some(captured_output[1] \o TextOf(last_call'))
              /\ console' = console
              /\ stdout_buf' = stdout_buf
         ELSE /\ console' \o stdout_buf' = (console \o stdout_buf) \o TextOf(last_call')
              /\ captured_output' = None]_vars

\* puts has written to the console with capture off, and print and puts have
\* written to the buffer with capture on.
C9_Witness ==
    /\ last_call.op = "puts"
    /\ last_call.capturing
    /\ console = <<"a", "b", "\n">>
    /\ captured_output = Some(<<"b", "a", "\n">>)

\* C10: a drain while no capture is active returns the empty string and does
\* not fail.
C10_DrainWithoutCapture ==
    (last_call.op = "get_and_clear_captured_output" /\ ~last_call.capturing) =>
        /\ last_call.ret = <<>>
        /\ status = "running"

\* A drain has returned with capture_output() never called, after output.
C10_Witness ==
    /\ last_call.op = "get_and_clear_captured_output"
    /\ ~last_call.capturing
    /\ last_call.log # <<>>
    /\ console # <<>>

\* C1, as stated: a call of exception::init with the root Exception class
\* already registered returns Ok at once: it defines no class, writes no
\* registry entry and evaluates no guest source.
C1_SecondInitIsNoOp ==
    (last_call.op = "init" /\ last_call.registered) =>
        /\ last_call.defines = 0
        /\ last_call.writes = 0
        /\ last_call.evals = 0
        /\ last_call.ret = "Ok"

\* The steps raise has taken, by name.
RaiseSteps == [i \in 1..Len(raise_log) |-> raise_log[i].step]

\* The steps of a raise that reaches the jump, in order.
RaiseProtocol == <<"mrb", "rclass", "convert", "drop_interp", "drop_exception",
                   "mrb_raisef">>

IsPrefix(p, q) == Len(p) <= Len(q) /\ p = SubSeq(q, 1, Len(p))

\* C2: raise resolves the class, converts the message, drops the state
\* handle and the exception, and jumps, in that order; when mrb_raisef is
\* called both have been dropped and the state is not borrowed.
C2_RaiseProtocol ==
    /\ IsPrefix(RaiseSteps, RaiseProtocol) \/ RaiseSteps = <<"mrb", "panic">>
    /\ \A i \in 1..Len(raise_log) :
          raise_log[i].step = "mrb_raisef" =>
              /\ ~raise_log[i].interp
              /\ ~raise_log[i].exception
              /\ raise_log[i].borrows = 0
    /\ pc = "unwinding" =>
          /\ ~frame.interp
          /\ frame.exception = None
          /\ borrows = 0
          /\ RaiseSteps = RaiseProtocol

\* raise has jumped out of a native function.
C2_Witness ==
    /\ pc = "unwinding"
    /\ vm_exc # None
    /\ RaiseSteps = RaiseProtocol

\* C3: raise of an exception whose class is not resolvable through the
\* registry panics: it neither converts the message nor calls mrb_raisef,
\* and no eval returns an error for it.
C3_UnregisteredIsFatal ==
    /\ [][(pc = "raise_rclass"
            /\ exception_rclass(classes, vm_classes, frame.exception[1]) = None) =>
              /\ pc' = "aborted"
              /\ status' = "crashed"
              /\ vm_exc' = None
              /\ UNCHANGED <<eval_result, eval_returned, eval_stack>>]_vars
    /\ [](pc = "aborted" =>
              /\ RaiseSteps = <<"mrb", "panic">>
              /\ status = "crashed"
              /\ vm_exc = None
              /\ eval_stack # <<>>
              /\ (eval_result = None \/ last_call.op = "native_raise"))
    /\ [][pc = "aborted" => pc' = "aborted"]_vars

\* raise has panicked on an exception of a kind that is not registered.
C3_Witness ==
    /\ pc = "aborted"
    /\ last_call.op = "native_raise"
    /\ class_spec(classes, last_call.type) = None

\* C4: when native code called under eval raises a registered kind K with
\* message M, the jump ends at that eval, which returns an error of class
\* K's registered name, message M and display "(eval):<line>: M (K)".
C4_EvalReturnsExecError ==
    /\ (pc \in {"host", "guest"} /\ last_call.op = "native_raise") =>
          LET K == class_spec(classes, last_call.type)[1].name
              M == last_call.message
          IN  /\ eval_result # None
              /\ ~eval_result[1].ok
              /\ eval_result[1].class = K
              /\ eval_result[1].message = M
              /\ eval_result[1].display =
                     "(eval):" \o ToString(last_call.line) \o ": " \o M \o " (" \o K \o ")"
              /\ vm_exc = None
    /\ pc = "unwinding" => context_stack # <<>>

\* eval has returned "(eval):1: something went wrong (RuntimeError)".
C4_Witness ==
    /\ pc = "host"
    /\ last_call.op = "native_raise"
    /\ eval_result = Some([ok |-> FALSE, class |-> "RuntimeError",
                           message |-> "something went wrong",
                           display |-> "(eval):1: something went wrong (RuntimeError)"])

\* C11: nested evals that succeed keep the context stack balanced.  While k
\* evals are in progress the stack is k deeper than the outermost of them
\* found it, each eval having pushed one context, and an eval that returns
\* Ok leaves the stack as it found it.
C11_NestedEvalBalanced ==
    /\ \A k \in 1..Len(eval_stack) :
          Len(eval_stack[k].before) = Len(eval_stack[1].before) + (k - 1)
    /\ eval_stack # <<>> =>
          Len(context_stack) = Len(eval_stack[1].before) + Len(eval_stack)
    /\ (eval_returned # None /\ eval_returned[1].kind = "Ok") =>
          eval_returned[1].after = eval_returned[1].before

\* An eval nested in another, entered with a context already on the stack,
\* has returned Ok into the guest code of the outer one.
C11_Witness ==
    /\ eval_returned # None
    /\ eval_returned[1].kind = "Ok"
    /\ eval_returned[1].level = 2
    /\ eval_returned[1].before = <<"init.rb", TOP_FILENAME>>
    /\ Len(eval_stack) = 1
    /\ pc = "guest"

\* C20: eval pops the context it pushed on the error path too.  When guest
\* code raises and eval returns an error, the context stack is what it was
\* before that eval was called.
C20_EvalPopsOnError ==
    (eval_returned # None /\ eval_returned[1].kind = "Err") =>
        /\ eval_returned[1].after = eval_returned[1].before
        /\ Len(eval_returned[1].after) = Len(eval_returned[1].before)

\* An eval entered with a context on the stack has caught the guest's
\* exception and returned the error to the host.
C20_Witness ==
    /\ eval_returned # None
    /\ eval_returned[1].kind = "Err"
    /\ eval_returned[1].before = <<"init.rb">>
    /\ eval_result # None
    /\ ~eval_result[1].ok
    /\ pc = "host"
    /\ context_stack = <<"init.rb">>

\* The edges of the hierarchy of builtin error classes, child first.
HierarchyEdges ==
    { <<c, "Exception">> : c \in {"NoMemoryError", "ScriptError", "SecurityError",
                                   "SignalException", "StandardError", "SystemExit",
                                   "SystemStackError", "fatal"} } \cup
    { <<c, "ScriptError">> : c \in {"LoadError", "NotImplementedError", "SyntaxError"} } \cup
    { <<c, "StandardError">> : c \in {"ArgumentError", "EncodingError", "FiberError",
                                       "IOError", "IndexError", "LocalJumpError",
                                       "NameError", "RangeError", "RegexpError",
                                       "RuntimeError", "SystemCallError", "ThreadError",
                                       "TypeError", "ZeroDivisionError"} } \cup
    { <<"Interrupt", "SignalException">>, <<"UncaughtThrowError", "ArgumentError">>,
      <<"EOFError", "IOError">>, <<"KeyError", "IndexError">>,
      <<"StopIteration", "IndexError">>, <<"NoMethodError", "NameError">>,
      <<"FloatDomainError", "RangeError">>, <<"FrozenError", "RuntimeError">> }

\* The class k superclass links above the class named n in the guest VM.
RECURSIVE Ancestor(_, _)
Ancestor(n, k) ==
    IF k = 0 THEN n
    ELSE IF n \in DOMAIN vm_classes THEN Ancestor(vm_classes[n], k - 1) ELSE "Object"

\* The host type a builtin error class is registered under.
HostType(n) == IF n = "fatal" THEN "Fatal" ELSE n

\* C12: once the bootstrap has registered the classes, every edge of the
\* hierarchy is a superclass link of the guest VM, Exception is the only
\* root, no class is more than 4 levels deep, and every class defined is
\* registered under its own host type.
C12_HierarchyDefinedAndRegistered ==
    classes # <<>> =>
        /\ \A e \in HierarchyEdges :
              /\ e[1] \in DOMAIN vm_classes
              /\ e[2] \in DOMAIN vm_classes
              /\ vm_classes[e[1]] = e[2]
        /\ {n \in DOMAIN vm_classes : vm_classes[n] = "Object"} = {"Exception"}
        /\ \A n \in DOMAIN vm_classes : \E k \in 0..3 : Ancestor(n, k) = "Exception"
        /\ \A n \in DOMAIN vm_classes :
              /\ class_spec(classes, HostType(n)) # None
              /\ class_spec(classes, HostType(n))[1].name = n
        /\ Cardinality(DOMAIN vm_classes) = Cardinality(HierarchyEdges) + 1

\* init has defined and registered the hierarchy; the deepest class and the
\* one whose guest name differs from its host type are there.
C12_Witness ==
    /\ last_call.op = "init"
    /\ last_call.writes = Len(Hierarchy)
    /\ "UncaughtThrowError" \in DOMAIN vm_classes
    /\ Ancestor("UncaughtThrowError", 3) = "Exception"
    /\ class_spec(classes, "Fatal") = Some([name |-> "fatal", super |-> Some("Exception")])

\* The spec passed to the most recent registration of type T in a registry,
\* read from the log of the calls made.
RECURSIVE MostRecent(_, _, _)
MostRecent(log, registry, T) ==
    IF log = <<>> THEN None
    ELSE LET last == log[Len(log)]
         IN  IF last.registry = registry /\ last.type = T THEN Some(last.spec)
             ELSE MostRecent(SubSeq(log, 1, Len(log) - 1), registry, T)

\* C13: a later def_class<T> or def_module<T> silently replaces an earlier
\* one.  After any sequence of registrations the lookup for T returns the
\* spec of the most recent registration of T in that registry, a registry
\* holds no more entries than types were registered in it, and no call
\* fails.
C13_LastRegistrationWins ==
    /\ \A T \in RegTypes :
          /\ class_spec(classes, T) = MostRecent(reg_log, "classes", T)
          /\ module_spec(modules, T) = MostRecent(reg_log, "modules", T)
    /\ Cardinality(DOMAIN classes) =
          Cardinality({reg_log[i].type : i \in {i \in 1..Len(reg_log) :
                                                  reg_log[i].registry = "classes"}})
    /\ Cardinality(DOMAIN modules) =
          Cardinality({reg_log[i].type : i \in {i \in 1..Len(reg_log) :
                                                  reg_log[i].registry = "modules"}})
    /\ status = "running"

\* A type has been registered as a class twice with different specs, and
\* the lookup returns the second.
C13_Witness ==
    \E i, j \in 1..Len(reg_log) :
        /\ i < j
        /\ j = Len(reg_log)
        /\ reg_log[i].registry = "classes"
        /\ reg_log[j].registry = "classes"
        /\ reg_log[i].type = reg_log[j].type
        /\ reg_log[i].spec # reg_log[j].spec
        /\ class_spec(classes, reg_log[j].type) = Some(reg_log[j].spec)

\* The lookups a registration of type T in a registry is not about.
OtherLookupsUnchanged(registry, T) ==
    \A U \in RegTypes :
        /\ (registry # "classes" \/ U # T) =>
               class_spec(classes', U) = class_spec(classes, U)
        /\ (registry # "modules" \/ U # T) =>
               module_spec(modules', U) = module_spec(modules, U)

\* C14: class_spec<T>() is None until def_class<T> is called for T and
\* module_spec<T>() is None until def_module<T> is called for T; a
\* registration changes the lookup of its own registry and type only.
C14_RegistrationFrame ==
    [][ /\ Len(reg_log') = Len(reg_log) + 1 =>
              LET call == reg_log'[Len(reg_log')]
              IN  /\ OtherLookupsUnchanged(call.registry, call.type)
                  /\ call.registry = "classes" =>
                         class_spec(classes', call.type) = Some(call.spec)
                  /\ call.registry = "modules" =>
                         module_spec(modules', call.type) = Some(call.spec)
        /\ \A T \in RegTypes :
              /\ class_spec(classes, T) = None <=>
                     \A i \in 1..Len(reg_log) :
                        ~(reg_log[i].registry = "classes" /\ reg_log[i].type = T)
              /\ module_spec(modules, T) = None <=>
                     \A i \in 1..Len(reg_log) :
                        ~(reg_log[i].registry = "modules" /\ reg_log[i].type = T)
      ]_vars

\* A class is registered for one type and a module for the other, and the
\* two remaining lookups are still None.
C14_Witness ==
    /\ class_spec(classes, "RuntimeError") # None
    /\ module_spec(modules, "RuntimeError") = None
    /\ class_spec(classes, "Fatal") = None
    /\ module_spec(modules, "Fatal") # None
    /\ Len(reg_log) >= 3

\* C19: name() and rclass() of an exception value are resolved through the
\* registry when they are called.  They give the name and the guest class of
\* the spec registered for the value's type at the call, whatever was
\* registered when the value was constructed, and "" and None when nothing
\* is registered for the type.
C19_ResolvedAtCallTime ==
    /\ last_call.op = "name" =>
          last_call.ret = IF last_call.type \in DOMAIN classes
                          THEN classes[last_call.type].name ELSE ""
    /\ last_call.op = "rclass" =>
          last_call.ret = IF last_call.type \in DOMAIN classes
                             /\ classes[last_call.type].name \in DOMAIN vm_classes
                          THEN Some(classes[last_call.type].name) ELSE None
    /\ (last_call.op = "rclass" /\ last_call.type \notin DOMAIN classes) =>
          last_call.ret = None

\* The spec of the value's type was replaced after the value was
\* constructed, and name() returns the name of the new one.
C19_Witness ==
    /\ last_call.op = "name"
    /\ class_spec(registry_at_new, last_call.type) # None
    /\ class_spec(classes, last_call.type) # class_spec(registry_at_new, last_call.type)
    /\ last_call.ret = classes[last_call.type].name
    /\ last_call.ret # registry_at_new[last_call.type].name

\* C15: when capture is not active, every print and every puts is followed
\* by a flush of standard output before the call returns.
C15_PrintAndPutsFlush ==
    (last_call.op \in {"print", "puts"} /\ ~last_call.capturing) =>
        last_call.flushes >= 1

\* C15, amended: when capture is not active, print flushes standard output
\* after writing and puts makes no flush call; the newline puts ends its
\* text with takes everything through the line-buffered standard output,
\* so after either call nothing is left in the buffer.
C15_NothingLeftBuffered ==
    (last_call.op \in {"print", "puts"} /\ ~last_call.capturing) =>
        /\ stdout_buf = <<>>
        /\ last_call.op = "print" => last_call.flushes = 1
        /\ last_call.op = "puts" => last_call.flushes = 0
        /\ Len(console) >= Len(last_call.s)
        /\ last_call.op = "print" =>
               SubSeq(console, Len(console) - Len(last_call.s) + 1, Len(console))
                   = last_call.s

\* A puts made with capture off, after a print, has returned without a
\* flush call and its line is on the console.
C15_Witness ==
    /\ last_call.op = "puts"
    /\ ~last_call.capturing
    /\ last_call.s = <<"a">>
    /\ last_call.flushes = 0
    /\ console = <<"b", "a", "\n">>
    /\ stdout_buf = <<>>

\* C16: close tears down in a fixed order.  The compile context is freed
\* first, the VM is closed next, and both calls are given the handles the
\* fields still hold, which are null only after the call; the VM is never
\* closed before the compile context is freed, and neither is freed twice.
C16_TeardownInOrder ==
    /\ \A i \in 1..Len(sys_calls) :
          sys_calls[i].fn = "mrb_close" =>
              /\ i > 1
              /\ sys_calls[i - 1].fn = "mrbc_context_free"
    /\ SysCallCount("mrbc_context_free") <= 1
    /\ SysCallCount("mrb_close") <= 1
    /\ (last_call.op = "close" /\ last_call.mrb # NULL /\ last_call.ud # NULL) =>
          /\ last_call.sys_calls = <<>>
          /\ sys_calls = <<[fn |-> "mrbc_context_free", arg |-> last_call.ctx],
                           [fn |-> "mrb_close", arg |-> last_call.mrb]>>
          /\ mrb = NULL
          /\ ctx = NULL
          /\ ~vm_open

\* close has torn down a State that held a VM and a compile context.
C16_Witness ==
    /\ last_call.op = "close"
    /\ last_call.mrb = "mrb"
    /\ last_call.ctx = "ctx"
    /\ last_call.ud = "ud"
    /\ Len(sys_calls) = 2
    /\ sys_calls[1].arg = "ctx"
    /\ sys_calls[2].arg = "mrb"
    /\ mrb = NULL

\* C17: closing an open State releases the back-reference in the VM's
\* user-data slot: after close has torn the VM down, the strong count of
\* the Rc behind that slot has fallen to 0 and the slot is null.
C17_CloseReleasesBackReference ==
    (last_call.op = "close" /\ last_call.mrb # NULL /\ last_call.ud # NULL) =>
        /\ rc = 0
        /\ ud = NULL

\* The name a sym_intern call is about.
NameOf(c) == c.sym.bytes

\* C18: sym_intern memoizes.  mrb_intern_static is called at most once for
\* each distinct name and only by a call that misses the cache; a hit
\* returns the cached symbol and makes no call into the VM; the entries of
\* the cache are never removed or changed.
C18_InternMemoized ==
    [][ /\ \A n \in DOMAIN vm_intern_calls' : vm_intern_calls'[n] <= 1
        /\ \A k \in DOMAIN symbol_cache :
              /\ k \in DOMAIN symbol_cache'
              /\ symbol_cache'[k] = symbol_cache[k]
        /\ (host_calls' = host_calls + 1 /\ last_call'.op = "sym_intern") =>
              LET c == last_call'
              IN  /\ c.hit <=> NameOf(c) \in DOMAIN symbol_cache
                  /\ c.hit =>
                        /\ c.ret = symbol_cache[NameOf(c)]
                        /\ vm_intern_calls' = vm_intern_calls
                        /\ vm_symtab' = vm_symtab
                        /\ symbol_cache' = symbol_cache
                  /\ ~c.hit =>
                        /\ NameOf(c) \notin DOMAIN vm_intern_calls
                        /\ vm_intern_calls' =
                               [n \in DOMAIN vm_intern_calls \cup {NameOf(c)} |-> 1]
      ]_vars

\* A name interned in one form has been looked up again in the other: the
\* second call hit the cache and the VM was called once for the name.
C18_Witness ==
    /\ last_call.op = "sym_intern"
    /\ last_call.hit
    /\ last_call.sym = [form |-> "Owned", bytes |-> <<97>>]
    /\ [name |-> <<97>>, form |-> "Borrowed", handle |-> last_call.ret] \in interned
    /\ vm_intern_calls[<<97>>] = 1
    /\ Cardinality(DOMAIN symbol_cache) >= 2

\* The sources a guarded initializer evaluates for a host type.
SourcesOf(T) ==
    GuardedInits[CHOOSE i \in 1..Len(GuardedInits) : GuardedInits[i].type = T].sources

\* C21: the guarded initializers are idempotent.  A call that finds the spec
\* of its type registered returns Ok without a registry write and without
\* evaluating guest source; any other call registers the spec and evaluates
\* the sources of the class in order, each once, up to the first that fails.
C21_GuardedInitIdempotent ==
    last_call.op = "guarded_init" =>
        /\ last_call.registered =>
              /\ last_call.ret = "Ok"
              /\ last_call.writes = 0
              /\ last_call.evals = <<>>
              /\ classes = last_call.classes
              /\ vm_evals = last_call.vm_evals
        /\ ~last_call.registered =>
              /\ last_call.writes = 1
              /\ class_spec(classes, last_call.type) # None
              /\ \A U \in DOMAIN last_call.classes : classes[U] = last_call.classes[U]
              /\ last_call.evals # <<>>
              /\ IsPrefix(last_call.evals, SourcesOf(last_call.type))
              /\ vm_evals = last_call.vm_evals \o last_call.evals
              /\ last_call.ret = "Ok" => last_call.evals = SourcesOf(last_call.type)

\* Float's init has been called again after a first call that succeeded,
\* and returned at once.
C21_Witness ==
    /\ last_call.op = "guarded_init"
    /\ last_call.type = "Float"
    /\ last_call.registered
    /\ last_call.ret = "Ok"
    /\ vm_evals = <<"float.rb", "class Float; EPSILON">>

\* C22: a drain does not change whether capture is active: after a
\* get_and_clear_captured_output() made while capture was off, capture is
\* still off, so that print and puts go on writing to the console.
C22_DrainKeepsCaptureMode ==
    (last_call.op = "get_and_clear_captured_output" /\ ~last_call.capturing) =>
        captured_output = None

\* C23: a guarded initializer that returns Err leaves the spec of its type
\* unregistered, so that a retry does not return through the guard.
C23_FailedInitNotRegistered ==
    (last_call.op = "guarded_init" /\ last_call.ret = "Err") =>
        class_spec(classes, last_call.type) = None

\* The host types and the class names of the hierarchy.
HierarchyTypes == {Hierarchy[i].type : i \in 1..Len(Hierarchy)}
HierarchyNames == {Hierarchy[i].name : i \in 1..Len(Hierarchy)}

\* C24: init writes the registry all or nothing with respect to define()
\* failures.  An init in which a define() fails returns Err and leaves the
\* registry as it found it, empty when it was empty; an init that writes
\* the registry has defined all 34 classes and registers all 34.
C24_RegistryAllOrNothing ==
    /\ (last_call.op = "init" /\ last_call.evals = 0) =>
          /\ last_call.ret = "Err"
          /\ classes = last_call.classes
          /\ ~last_call.registered => classes = <<>>
    /\ (last_call.op = "init" /\ last_call.evals = 1) =>
          /\ last_call.defines = Len(Hierarchy)
          /\ HierarchyNames \subseteq DOMAIN vm_classes
          /\ HierarchyTypes \subseteq DOMAIN classes
    /\ DOMAIN classes \cap HierarchyTypes \in {{}, HierarchyTypes}

\* The first init failed at the define() of UncaughtThrowError, after 11
\* classes were defined, and no class is registered.
C24_Witness ==
    /\ last_call.op = "init"
    /\ last_call.ret = "Err"
    /\ last_call.defines = 12
    /\ ~last_call.registered
    /\ Cardinality(DOMAIN vm_classes) = 11
    /\ classes = <<>>

\* C25: init defines every class after its superclass, Exception first:
\* whatever define() it stops at, the superclass of every class defined is
\* defined.  exception.rb is evaluated only when all classes are defined
\* and registered, and with no borrow of the state held.
C25_BootstrapOrder ==
    /\ \A n \in DOMAIN vm_classes :
          vm_classes[n] = "Object" \/ vm_classes[n] \in DOMAIN vm_classes
    /\ vm_classes # <<>> => "Exception" \in DOMAIN vm_classes
    /\ last_call.op = "init" =>
          /\ Cardinality(DOMAIN vm_classes) >= last_call.defines - 1
          /\ last_call.evals = 1 =>
                /\ last_call.eval_borrows = 0
                /\ last_call.defines = Len(Hierarchy)
                /\ last_call.writes = Len(Hierarchy)
                /\ \A i \in 1..Len(Hierarchy) :
                      /\ Hierarchy[i].name \in DOMAIN vm_classes
                      /\ class_spec(classes, Hierarchy[i].type) # None
                /\ vm_evals # <<>>
                /\ vm_evals[Len(vm_evals)] = "exception.rb"
    /\ vm_evals # <<>> => HierarchyTypes \subseteq DOMAIN classes

\* An init stopped at the define() of EOFError: its superclass IOError is
\* defined, EOFError is not, and exception.rb has not been evaluated.
C25_Witness ==
    /\ last_call.op = "init"
    /\ last_call.defines = 16
    /\ last_call.evals = 0
    /\ "IOError" \in DOMAIN vm_classes
    /\ "EOFError" \notin DOMAIN vm_classes
    /\ vm_evals = <<>>

\* C26: raise does not leak owners of the state.  The native entry point
\* takes a handle and the exception it constructs holds a clone; when
\* mrb_raisef jumps, the state has as many owners as before the entry point
\* took its handle.
C26_RaiseLeaksNoOwner ==
    /\ pc = "raise" => rc = frame.owners + 2
    /\ pc = "raise_jump" => rc = frame.owners
    /\ pc = "unwinding" =>
          /\ rc = frame.owners
          /\ ~frame.interp
          /\ frame.exception = None
    /\ pc \in {"host", "guest"} => rc = 2

\* mrb_raisef has jumped out of the native entry point, and the state is
\* owned by the host and the VM's user data as before.
C26_Witness ==
    /\ pc = "unwinding"
    /\ last_call.op = "native_raise"
    /\ raise_log # <<>>
    /\ raise_log[Len(raise_log)].step = "mrb_raisef"
    /\ frame.owners = 2
    /\ rc = 2
====
